---------------------------- MODULE Spec2Model ----------------------------
(***************************************************************************)
(* Model of the price-elasticity analyzer (src/app.py).                    *)
(*                                                                         *)
(* Numbers.  Elasticities and thresholds are integers.  The code compares  *)
(* an elasticity with threshold_high / 2 (true division) and the mean of a *)
(* band with 0; the model keeps both exact: e > t/2 is 2*e > t, and a mean  *)
(* is the pair (sum, count).  Floating-point rounding is not modelled.     *)
(* The signed discount fraction of a row is held in hundredths, so that    *)
(* abs(x) * 100 is Abs of that integer.                                    *)
(*                                                                         *)
(* Strings.  The Japanese labels of the source are written in ASCII; each  *)
(* definition that holds one quotes the original in its comment.  A text   *)
(* (the name-mapping input) is a sequence of one-character strings.        *)
(***************************************************************************)
EXTENDS Integers, Sequences, FiniteSets, TLC

VARIABLES
    \* the call frame of classify_asin
    asin_data, light_max, deep_min, ret,
    \* sidebar and main-area widgets (values the script reads on each run)
    df, asin_name_input, threshold_high, threshold_low,
    light_discount_max, deep_discount_min,
    \* st.session_state
    fig, df_result, graph_generated,
    \* what the last script run did: the button's value, st.error shown
    button, error_shown,
    \* local of the generation trigger
    asin_names_dict

vars == <<asin_data, light_max, deep_min, ret,
          df, asin_name_input, threshold_high, threshold_low,
          light_discount_max, deep_discount_min,
          fig, df_result, graph_generated, button, error_shown,
          asin_names_dict>>

callVars    == <<asin_data, light_max, deep_min, ret>>
widgetVars  == <<df, asin_name_input, threshold_high, threshold_low,
                 light_discount_max, deep_discount_min>>
sessionVars == <<fig, df_result, graph_generated>>

-----------------------------------------------------------------------------
(* Python values *)

\* Python's None, and a value that is present.
None == [some |-> FALSE]
Some(v) == [some |-> TRUE, val |-> v]

Range(s) == {s[i] : i \in 1..Len(s)}

Abs(x) == IF x < 0 THEN -x ELSE x

RECURSIVE SeqSum(_)
SeqSum(s) == IF s = <<>> THEN 0 ELSE Head(s) + SeqSum(Tail(s))

\* Series.max() of a non-empty numeric column
SeriesMax(col) == CHOOSE m \in Range(col) : \A v \in Range(col) : v <= m

\* Series.mean() of a non-empty numeric column, as the exact fraction sum/count
SeriesMean(col) == [sum |-> SeqSum(col), count |-> Len(col)]

\* the column 'elasticity' of a frame
Elasticities(data) == [i \in 1..Len(data) |-> data[i].elasticity]

-----------------------------------------------------------------------------
(* classify_asin *)

\* asin_data[asin_data[discount_pct] >= deep_min]
deep_data(data, dmin) == SelectSeq(data, LAMBDA r : r.discount_pct >= dmin)

\* variant: the upper edge of the light band excluded
light_data_open(data, lmax) ==
    SelectSeq(data, LAMBDA r : r.discount_pct >= 5 /\ r.discount_pct < lmax)
\* asin_data[(discount_pct >= 5) & (discount_pct <= light_max)]
light_data(data, lmax) ==
    SelectSeq(data, LAMBDA r : r.discount_pct >= 5 /\ r.discount_pct <= lmax)

\* variant: 0 for an empty band
max_or_zero(data) ==
    IF Len(data) > 0 THEN Some(SeriesMax(Elasticities(data))) ELSE Some(0)
\* data[elasticity].max() if len(data) > 0 else None
max_or_None(data) ==
    IF Len(data) > 0 THEN Some(SeriesMax(Elasticities(data))) ELSE None

\* data[elasticity].mean() if len(data) > 0 else None
mean_or_None(data) ==
    IF Len(data) > 0 THEN Some(SeriesMean(Elasticities(data))) ELSE None

\* the returned tuples: (pattern, pattern name, recommendation, colour)
\*   A "閾値突破型"     "20%オフ推奨"
\*   B "軽値引き反応型" "5-10%オフ推奨"
\*   C "低空飛行型"     "セール見送り"
\*   D "検証必要"       "データ不足"
\* variant: C with the colour of D
RET_C_grey == <<"C", "low flight", "skip the sale", "#7f7f7f">>
RET_A == <<"A", "threshold breakthrough", "20% off recommended", "#2ca02c">>
RET_B == <<"B", "light discount responsive", "5-10% off recommended", "#1f77b4">>
RET_C == <<"C", "low flight", "skip the sale", "#d62728">>
RET_D == <<"D", "needs verification", "insufficient data", "#7f7f7f">>

\* light_elasticity_avg is not None and light_elasticity_avg < 0
avg_negative(light_elasticity_avg) ==
    light_elasticity_avg.some /\ light_elasticity_avg.val.sum < 0

\* variant: Rule A returns only when the light-band mean is negative
rule_A_light_negative_only(deep_elasticity, light_elasticity_avg, th) ==
    IF deep_elasticity.some /\ deep_elasticity.val > th
    THEN IF avg_negative(light_elasticity_avg) THEN Some(RET_A) ELSE None
    ELSE None
\* Rule A: deep_elasticity is not None and deep_elasticity > threshold_high,
\* with its two sub-branches; None when the rule does not return
rule_A(deep_elasticity, light_elasticity_avg, th) ==
    IF deep_elasticity.some /\ deep_elasticity.val > th
    THEN IF avg_negative(light_elasticity_avg) THEN Some(RET_A) ELSE Some(RET_A)
    ELSE None

\* Rule B: light_elasticity_max is not None and
\* light_elasticity_max > threshold_high / 2
rule_B(light_elasticity_max, th) ==
    IF light_elasticity_max.some /\ 2 * light_elasticity_max.val > th
    THEN Some(RET_B)
    ELSE None

\* variant: deep_elasticity <= threshold_high
rule_C_le(light_elasticity_avg, deep_elasticity, th) ==
    IF avg_negative(light_elasticity_avg)
    THEN IF (~deep_elasticity.some) \/ deep_elasticity.val <= th
         THEN Some(RET_C)
         ELSE None
    ELSE None
\* Rule C: light_elasticity_avg is not None and light_elasticity_avg < 0, and
\* then deep_elasticity is None or deep_elasticity < threshold_high
rule_C(light_elasticity_avg, deep_elasticity, th) ==
    IF avg_negative(light_elasticity_avg)
    THEN IF (~deep_elasticity.some) \/ deep_elasticity.val < th
         THEN Some(RET_C)
         ELSE None
    ELSE None

classify_asin(data, th, lmax, dmin) ==
    LET deep_elasticity      == max_or_None(deep_data(data, dmin))
        light_elasticity_max == max_or_None(light_data(data, lmax))
        light_elasticity_avg == mean_or_None(light_data(data, lmax))
        a == rule_A(deep_elasticity, light_elasticity_avg, th)
        b == rule_B(light_elasticity_max, th)
        c == rule_C(light_elasticity_avg, deep_elasticity, th)
    IN  IF a.some THEN a.val
        ELSE IF b.some THEN b.val
        ELSE IF c.some THEN c.val
        ELSE RET_D

-----------------------------------------------------------------------------
(* Text: a str is a sequence of one-character strings *)

TAB == "\t"
NL == "\n"
COMMA == ","

\* the characters str.strip() removes (of the model's alphabet)
Whitespace == {" ", TAB, NL}

RECURSIVE lstrip(_)
lstrip(s) == IF s /= <<>> /\ Head(s) \in Whitespace THEN lstrip(Tail(s)) ELSE s

RECURSIVE rstrip(_)
rstrip(s) ==
    IF s /= <<>> /\ s[Len(s)] \in Whitespace
    THEN rstrip(SubSeq(s, 1, Len(s) - 1))
    ELSE s

\* str.strip()
strip(s) == rstrip(lstrip(s))

\* c in s
Contains(s, c) == \E i \in 1..Len(s) : s[i] = c

\* s.index(c), 1-based, for a string that contains c
RECURSIVE Find(_, _)
Find(s, c) == IF Head(s) = c THEN 1 ELSE 1 + Find(Tail(s), c)

\* s.split(c)
RECURSIVE split(_, _)
split(s, c) ==
    IF ~Contains(s, c) THEN <<s>>
    ELSE LET p == Find(s, c)
         IN  <<SubSeq(s, 1, p - 1)>> \o split(SubSeq(s, p + 1, Len(s)), c)

\* s.split(c, 1)
split1(s, c) ==
    IF ~Contains(s, c) THEN <<s>>
    ELSE LET p == Find(s, c)
         IN  <<SubSeq(s, 1, p - 1), SubSeq(s, p + 1, Len(s))>>

\* a dict is a function; {} is the function with the empty domain
EmptyDict == <<>>
dict_set(d, k, v) == [x \in DOMAIN d \cup {k} |-> IF x = k THEN v ELSE d[x]]
dict_get(d, k, default) == IF k \in DOMAIN d THEN d[k] ELSE default

-----------------------------------------------------------------------------
(* The name-mapping parse of the generation trigger *)

\* variant: the comma is looked for before the tab
line_parts_comma_first(line) ==
    IF Contains(line, COMMA) THEN Some(split1(line, COMMA))
    ELSE IF Contains(line, TAB) THEN Some(split1(line, TAB))
    ELSE None
\* the parts of one line, or None where the loop continues
line_parts(line) ==
    IF Contains(line, TAB) THEN Some(split1(line, TAB))
    ELSE IF Contains(line, COMMA) THEN Some(split1(line, COMMA))
    ELSE None

\* the loop over the lines, from the dict d built so far
RECURSIVE parse_lines(_, _)
parse_lines(lines, d) ==
    IF lines = <<>> THEN d
    ELSE LET parts == line_parts(Head(lines))
         IN  IF parts.some /\ Len(parts.val) = 2
             THEN parse_lines(Tail(lines),
                      dict_set(d, strip(parts.val[1]), strip(parts.val[2])))
             ELSE parse_lines(Tail(lines), d)

parse_names(text) ==
    IF text /= <<>> /\ strip(text) /= <<>>
    THEN parse_lines(split(strip(text), NL), EmptyDict)
    ELSE EmptyDict

-----------------------------------------------------------------------------
(* generate_graph *)

\* A frame is [rows, missing]: the rows read from the CSV, each
\* [ASIN, discount, list_price, elasticity] (discount is the signed fraction in
\* hundredths), and the name of a column the CSV lacks ("" when it has all).
\* Indexing a missing column raises KeyError.
Raise == [raised |-> TRUE]
Return(v) == [raised |-> FALSE, val |-> v]

\* df[discount_pct] = df[discount].abs() * 100
with_pct(rows) ==
    [i \in 1..Len(rows) |->
        [ASIN |-> rows[i].ASIN, discount |-> rows[i].discount,
         list_price |-> rows[i].list_price, elasticity |-> rows[i].elasticity,
         discount_pct |-> Abs(rows[i].discount)]]

\* the distinct values not yet seen, in order of first appearance
RECURSIVE unique_from(_, _)
unique_from(col, seen) ==
    IF col = <<>> THEN <<>>
    ELSE IF Head(col) \in seen THEN unique_from(Tail(col), seen)
    ELSE <<Head(col)>> \o unique_from(Tail(col), seen \cup {Head(col)})

\* variant: the distinct values in order of last appearance
Reverse(col) == [i \in 1..Len(col) |-> col[Len(col) + 1 - i]]
unique_keep_last(col) == Reverse(unique_from(Reverse(col), {}))
\* Series.unique()
unique(col) == unique_from(col, {})

\* the sequence without its i-th element
Remove(col, i) == SubSeq(col, 1, i - 1) \o SubSeq(col, i + 1, Len(col))

\* DataFrame.sort_values(discount_pct): the default sort is not stable, so
\* every ordering of the rows that is ascending in discount_pct is an outcome
\* (any row with the least discount_pct may come first, and so on)
RECURSIVE sort_values(_)
sort_values(data) ==
    IF data = <<>> THEN {<<>>}
    ELSE LET least == {i \in 1..Len(data) :
                          \A j \in 1..Len(data) :
                              data[i].discount_pct <= data[j].discount_pct}
         IN  UNION {{<<data[i]>> \o rest : rest \in sort_values(Remove(data, i))}
                    : i \in least}

colors == <<"#1f77b4", "#ff7f0e", "#2ca02c", "#d62728", "#9467bd",
            "#8c564b", "#e377c2", "#7f7f7f", "#bcbd22", "#17becf">>

\* the band edges the call site passes to classify_asin
ReportLightMax == 12
ReportDeepMin == 15

\* variant: the configured band edges are passed
classify_call_configured(data, th) ==
    classify_asin(data, th, light_discount_max, deep_discount_min)
\* classify_asin(asin_data, threshold_high, 12, 15)
classify_call(data, th) == classify_asin(data, th, ReportLightMax, ReportDeepMin)

\* the body of the loop for the product at index i (0-based) once its rows
\* are sorted: the results entry and the trace
loop_body(data, names, th, i, asin) ==
    LET color == colors[(i % Len(colors)) + 1]
        display_name == dict_get(names, asin, asin)
        c == classify_call(data, th)
    IN  [result |-> [ASIN |-> asin,
                     name |-> IF display_name /= asin THEN display_name ELSE <<>>,
                     pattern |-> <<c[1], ". ", c[2]>>,
                     recommendation |-> c[3],
                     list_price |-> data[1].list_price],
         trace |-> [x |-> [k \in 1..Len(data) |-> data[k].discount_pct],
                    y |-> [k \in 1..Len(data) |-> data[k].elasticity],
                    name |-> <<display_name, " (", c[1], ")">>,
                    color |-> color]]

\* the loop over asins from index i on: the set of possible lists of entries
RECURSIVE loop_from(_, _, _, _, _)
loop_from(rows, names, th, asins, i) ==
    IF i >= Len(asins) THEN {<<>>}
    ELSE LET asin == asins[i + 1]
             selected == SelectSeq(rows, LAMBDA r : r.ASIN = asin)
             rest == loop_from(rows, names, th, asins, i + 1)
         IN  IF Len(selected) = 0 THEN rest
             ELSE {<<loop_body(data, names, th, i, asin)>> \o more :
                      data \in sort_values(selected), more \in rest}

\* the figure: the two zones, the two reference lines and the traces
make_fig(th, tl, traces) ==
    [hrects |-> <<[y0 |-> th, y1 |-> 50], [y0 |-> -30, y1 |-> tl]>>,
     hlines |-> <<tl, th>>,
     traces |-> traces]

\* the outcomes of generate_graph(df, asin_names_dict, threshold_high,
\* threshold_low): Raise, or Return of [fig, df_result]
generate_graph(frame, names, th, tl) ==
    IF frame.missing = "ASIN" THEN {Raise}
    ELSE LET rows == with_pct(frame.rows)
             asins == unique([i \in 1..Len(rows) |-> rows[i].ASIN])
         IN  IF Len(asins) > 0 /\ frame.missing \in {"list_price", "elasticity"}
             THEN {Raise}
             ELSE {Return([fig |-> make_fig(th, tl,
                                     [k \in 1..Len(run) |-> run[k].trace]),
                           df_result |-> [k \in 1..Len(run) |-> run[k].result]])
                   : run \in loop_from(rows, names, th, asins, 0)}

-----------------------------------------------------------------------------
(* The generation trigger *)

\* variant: the except block clears the session state
except_block_resets(session) ==
    [fig |-> None, df_result |-> None, graph_generated |-> FALSE]
\* session state after the except block, which only reports the error
except_block(session) == session

\* variant: a table already stored is kept
store_result_keeps_table(session, out) ==
    [fig |-> Some(out.fig),
     df_result |-> IF session.df_result = None THEN Some(out.df_result)
                   ELSE session.df_result,
     graph_generated |-> TRUE]
\* st.session_state.fig, st.session_state.df_result = generate_graph(...)
\* st.session_state.graph_generated = True
store_result(session, out) ==
    [fig |-> Some(out.fig), df_result |-> Some(out.df_result),
     graph_generated |-> TRUE]

\* the try block of the button: the possible
\* [session, error_shown, asin_names_dict] after it
generation_trigger(session, frame, text, th, tl) ==
    IF frame.missing = "discount"
    THEN {[session |-> except_block(session), error_shown |-> TRUE,
           asin_names_dict |-> None]}
    ELSE LET names == parse_names(text)
         IN  {IF out.raised
              THEN [session |-> except_block(session), error_shown |-> TRUE,
                    asin_names_dict |-> Some(names)]
              ELSE [session |-> store_result(session, out.val),
                    error_shown |-> FALSE, asin_names_dict |-> Some(names)]
              : out \in generate_graph(frame, names, th, tl)}

\* the button is rendered only when df is not None; a click runs the script
\* with the widgets as they are
GenerationTrigger ==
    /\ df /= None
    /\ \E post \in generation_trigger(
                      [fig |-> fig, df_result |-> df_result,
                       graph_generated |-> graph_generated],
                      df, asin_name_input, threshold_high, threshold_low) :
          /\ fig' = post.session.fig
          /\ df_result' = post.session.df_result
          /\ graph_generated' = post.session.graph_generated
          /\ error_shown' = post.error_shown
          /\ asin_names_dict' = post.asin_names_dict
    /\ button' = TRUE
    /\ UNCHANGED <<widgetVars, callVars>>

\* the chart, the table and the downloads are shown
Displayed == graph_generated /\ fig /= None

-----------------------------------------------------------------------------
(* Generation runs: one click on a fresh session, for every frame, mapping  *)
(* text and configuration of the input sets                                *)

SeqsUpTo(S, n) == UNION {[1..k -> S] : k \in 0..n}

\* ret before classify_asin has returned
NotCalled == <<>>

MaxRows == 3
MaxText == 5

Asins == {<<"a">>, <<"b">>}
\* signed discount fractions in hundredths: -0.12 and 0.15, the edges of the
\* two bands of the call site
DiscountFractions == {-12, 15}
RunElasticities == {-3, 3}
RunThresholds == {2, 3}
\* (light_discount_max, deep_discount_min): the defaults and another pair
ThresholdHighDefault == 10
LightDiscountMaxDefault == 10
DeepDiscountMinDefault == 20
BandConfigs == {<<LightDiscountMaxDefault, DeepDiscountMinDefault>>, <<13, 13>>}

Rows == [ASIN : Asins, discount : DiscountFractions, list_price : {1500},
         elasticity : RunElasticities]

Frame(rows, missing) == [rows |-> rows, missing |-> missing]
Frames == {Frame(rows, "") : rows \in SeqsUpTo(Rows, MaxRows)}

Chars == {"a", "x", " ", TAB, NL, COMMA}
Texts == SeqsUpTo(Chars, MaxText)
RunTexts == {<<>>, <<"a", TAB, "x">>}

FreshSession ==
    /\ fig = None /\ df_result = None /\ graph_generated = FALSE
    /\ button = FALSE /\ error_shown = FALSE
    /\ asin_names_dict = None

NoCall ==
    /\ asin_data = <<>> /\ ret = NotCalled
    /\ light_max = ReportLightMax /\ deep_min = ReportDeepMin

InitRun ==
    /\ df \in Frames
    /\ asin_name_input \in RunTexts
    /\ threshold_high \in RunThresholds
    /\ threshold_low = 0
    /\ \E c \in BandConfigs : light_discount_max = c[1] /\ deep_discount_min = c[2]
    /\ FreshSession
    /\ NoCall

NextRun == GenerationTrigger

SpecRun == InitRun /\ [][NextRun]_vars

InitParse ==
    /\ df = Frame(<<[ASIN |-> <<"a">>, discount |-> -12, list_price |-> 1500,
                     elasticity |-> 3]>>, "")
    /\ asin_name_input \in Texts
    /\ threshold_high = ThresholdHighDefault
    /\ threshold_low = 0
    /\ light_discount_max = LightDiscountMaxDefault
    /\ deep_discount_min = DeepDiscountMinDefault
    /\ FreshSession
    /\ NoCall

NextParse == GenerationTrigger

SpecParse == InitParse /\ [][NextParse]_vars

-----------------------------------------------------------------------------
(* Bounds and input sets of the classification calls *)

MaxObs == 3

DiscountPcts == {3, 5, 12, 15}
ElasticityVals == {-3, 1, 2, 3}
ThresholdVals == {-2, 2, 3}
LightMaxVals == {4, 12, 16}
DeepMinVals == {3, 15}

Observations == [discount_pct : DiscountPcts, elasticity : ElasticityVals]

Series == SeqsUpTo(Observations, MaxObs) \ {<<>>}

InitCall ==
    /\ asin_data \in Series
    /\ threshold_high \in ThresholdVals
    /\ light_max \in LightMaxVals
    /\ deep_min \in DeepMinVals
    /\ ret = NotCalled
    /\ df = None /\ asin_name_input = <<>> /\ threshold_low = 0
    /\ light_discount_max = LightDiscountMaxDefault
    /\ deep_discount_min = DeepDiscountMinDefault
    /\ FreshSession

ClassifyAsin ==
    /\ ret = NotCalled
    /\ ret' = classify_asin(asin_data, threshold_high, light_max, deep_min)
    /\ UNCHANGED <<asin_data, light_max, deep_min>>
    /\ UNCHANGED <<widgetVars, sessionVars, button, error_shown, asin_names_dict>>

NextCall == ClassifyAsin

SpecCall == InitCall /\ [][NextCall]_vars

-----------------------------------------------------------------------------
(* The session: script runs on widget changes and on clicks of the button  *)

Row(asin, discount, price, elasticity) ==
    [ASIN |-> asin, discount |-> discount, list_price |-> price,
     elasticity |-> elasticity]

\* rows after the sample data of the text area, elasticities rounded
SampleA == <<Row(<<"a">>, -5, 1500, -18), Row(<<"a">>, -20, 1500, 18)>>
SampleBC == <<Row(<<"b">>, -12, 1539, -6), Row(<<"a">>, -6, 1800, 17),
              Row(<<"b">>, -5, 1545, -15)>>

\* what the data input can hold: nothing (None), a CSV with all columns, or a
\* CSV that lacks one
SessionFrames ==
    {None,
     Frame(<<>>, ""), Frame(SampleA, ""), Frame(SampleBC, ""),
     Frame(SampleA, "discount"), Frame(SampleA, "elasticity"),
     Frame(SampleBC, "list_price"), Frame(<<>>, "ASIN"),
     Frame(<<>>, "list_price")}
SessionThresholds == {ThresholdHighDefault, 20}

Init ==
    /\ df = None
    /\ asin_name_input = <<>>
    /\ threshold_high = ThresholdHighDefault
    /\ threshold_low = 0
    /\ light_discount_max = LightDiscountMaxDefault
    /\ deep_discount_min = DeepDiscountMinDefault
    /\ FreshSession
    /\ NoCall

\* the user changes widgets and the script runs again without a click: the
\* button is False, nothing is generated, session state is kept
Rerun ==
    /\ \E f \in SessionFrames, t \in RunTexts, th \in SessionThresholds,
          c \in BandConfigs :
          /\ <<f, t, th, c[1], c[2]>>
                /= <<df, asin_name_input, threshold_high,
                     light_discount_max, deep_discount_min>>
          /\ df' = f
          /\ asin_name_input' = t
          /\ threshold_high' = th
          /\ light_discount_max' = c[1]
          /\ deep_discount_min' = c[2]
    /\ button' = FALSE
    /\ error_shown' = FALSE
    /\ asin_names_dict' = None
    /\ UNCHANGED <<threshold_low, sessionVars, callVars>>

Next == Rerun \/ GenerationTrigger

Spec == Init /\ [][Next]_vars

-----------------------------------------------------------------------------
(* Claims about classify_asin, stated on the call frame                    *)

Called == ret /= NotCalled

\* the observations of each band, by position in asin_data
DeepBand  == {i \in 1..Len(asin_data) : asin_data[i].discount_pct >= deep_min}
LightBand == {i \in 1..Len(asin_data) :
                 /\ asin_data[i].discount_pct >= 5
                 /\ asin_data[i].discount_pct <= light_max}

RECURSIVE ElasticitySum(_)
ElasticitySum(I) ==
    IF I = {} THEN 0
    ELSE LET i == CHOOSE j \in I : TRUE
         IN  asin_data[i].elasticity + ElasticitySum(I \ {i})

\* the deep-band maximum exists and exceeds threshold_high
MatchesA == \E i \in DeepBand : asin_data[i].elasticity > threshold_high
\* the light-band maximum exists and exceeds threshold_high / 2
MatchesB == \E i \in LightBand : 2 * asin_data[i].elasticity > threshold_high
\* the light-band mean exists and is negative
LightMeanNegative == LightBand /= {} /\ ElasticitySum(LightBand) < 0
\* the deep-band maximum is absent or below threshold_high
DeepAbsentOrBelow == \A i \in DeepBand : asin_data[i].elasticity < threshold_high
\* the deep-band maximum exists and equals threshold_high
DeepMaxAtThreshold ==
    /\ \E i \in DeepBand : asin_data[i].elasticity = threshold_high
    /\ \A i \in DeepBand : asin_data[i].elasticity <= threshold_high

\* C1: every call returns a complete 4-tuple that is one of the four fixed
\* (category, label, recommendation, colour) tuples, whatever the series and
\* the three thresholds are.
C1_Total ==
    Called =>
        /\ Len(ret) = 4
        /\ ret[1] \in {"A", "B", "C", "D"}
        /\ ret[1] = "A" => ret = <<"A", "threshold breakthrough",
                                   "20% off recommended", "#2ca02c">>
        /\ ret[1] = "B" => ret = <<"B", "light discount responsive",
                                   "5-10% off recommended", "#1f77b4">>
        /\ ret[1] = "C" => ret = <<"C", "low flight", "skip the sale", "#d62728">>
        /\ ret[1] = "D" => ret = <<"D", "needs verification",
                                   "insufficient data", "#7f7f7f">>

\* a call with thresholds a caller would call insane (the deep band starts
\* below the light floor and overlaps the light band, threshold_high is
\* negative) that returned category C
C1_Witness ==
    Called /\ light_max > deep_min /\ deep_min < 5 /\ threshold_high < 0 /\ ret[1] = "C"

\* C2: a deep-band maximum above threshold_high gives category A, whatever
\* the light band holds.
C2_RuleAFirst == (Called /\ MatchesA) => ret[1] = "A"

\* Rule A and Rule B both match, and the light-band mean is not negative
C2_Witness ==
    Called /\ MatchesA /\ MatchesB /\ ~LightMeanNegative /\ ret[1] = "A"

\* C3: when Rule A does not match, the result is B exactly when some
\* observation with 5 <= discount_pct <= light_max has elasticity above
\* threshold_high / 2.
C3_RuleB == (Called /\ ~MatchesA) => (ret[1] = "B" <=> MatchesB)

\* B decided by an observation on the inclusive upper edge of the light band
C3_Witness ==
    /\ Called /\ ~MatchesA /\ ret[1] = "B"
    /\ \A i \in LightBand : asin_data[i].discount_pct = light_max
    /\ DeepBand /= {}

\* C4: when neither Rule A nor Rule B matches, the result is C exactly when
\* the light band is non-empty with a negative mean and the deep-band maximum
\* is absent or strictly below threshold_high; otherwise it is D.
C4_RuleCD ==
    (Called /\ ~MatchesA /\ ~MatchesB) =>
        /\ ret[1] \in {"C", "D"}
        /\ ret[1] = "C" <=> (LightMeanNegative /\ DeepAbsentOrBelow)

\* negative light-band mean with the deep-band maximum exactly at
\* threshold_high: category D
C4_Witness ==
    /\ Called /\ ~MatchesA /\ ~MatchesB
    /\ LightMeanNegative /\ DeepMaxAtThreshold
    /\ ret[1] = "D"

\* C5: a series with no observation at 5 percent or more, hence none in the
\* light band, and none in the deep band has all three aggregates absent and
\* is classified D, for every threshold_high.
C5_MissingData ==
    (/\ Called
     /\ \A i \in 1..Len(asin_data) : asin_data[i].discount_pct < 5
     /\ DeepBand = {})
    => /\ LightBand = {}
       /\ max_or_None(deep_data(asin_data, deep_min)) = None
       /\ max_or_None(light_data(asin_data, light_max)) = None
       /\ mean_or_None(light_data(asin_data, light_max)) = None
       /\ ret[1] = "D"

\* such a series, classified under a negative threshold_high
C5_Witness ==
    /\ Called
    /\ \A i \in 1..Len(asin_data) : asin_data[i].discount_pct < 5
    /\ DeepBand = {}
    /\ threshold_high < 0
    /\ ret[1] = "D"

-----------------------------------------------------------------------------
(* Claims about a generation run                                           *)

Succeeded == button /\ ~error_shown
Table == df_result.val

\* the observations of a product, in input order
ObservationsOf(asin) ==
    SelectSeq(with_pct(df.rows), LAMBDA r : r.ASIN = asin)

\* C6: the table of a run is the classification with the light band ending
\* at 12 and the deep band starting at 15, whatever light_discount_max and
\* deep_discount_min are configured; so two runs that differ only in these
\* two values give every product the same category, label and recommendation.
C6_FixedBands ==
    Succeeded =>
        \A k \in 1..Len(Table) :
            LET c == classify_asin(ObservationsOf(Table[k].ASIN),
                                   threshold_high, 12, 15)
            IN  /\ Table[k].pattern = <<c[1], ". ", c[2]>>
                /\ Table[k].recommendation = c[3]

\* a run in which a product would get another category under the configured
\* band values
C6_Witness ==
    /\ Succeeded
    /\ \E k \in 1..Len(Table) :
          classify_asin(ObservationsOf(Table[k].ASIN), threshold_high,
                        light_discount_max, deep_discount_min)[1]
              /= Table[k].pattern[1]

\* the position of the first row of a product
FirstRowOf(asin) ==
    CHOOSE i \in 1..Len(df.rows) :
        /\ df.rows[i].ASIN = asin
        /\ \A j \in 1..(i - 1) : df.rows[j].ASIN /= asin

\* the reorderings of the rows that keep every position with its product:
\* position by position, any row of the pool with that position's product
RECURSIVE Arrange(_, _)
Arrange(products, pool) ==
    IF products = <<>> THEN {<<>>}
    ELSE UNION {{<<pool[i]>> \o rest :
                    rest \in Arrange(Tail(products), Remove(pool, i))}
                : i \in {i \in 1..Len(pool) : pool[i].ASIN = Head(products)}}
WithinProductOrders ==
    Arrange([i \in 1..Len(df.rows) |-> df.rows[i].ASIN], df.rows)

Column(table, field) == [k \in 1..Len(table) |-> table[k][field]]

\* C7: the table has one row per distinct product, in order of first
\* appearance, and reordering the rows of a product among its own positions
\* changes neither the order of the table nor any category.
C7_FirstSeenOrder ==
    Succeeded =>
        /\ \A j, k \in 1..Len(Table) : j /= k => Table[j].ASIN /= Table[k].ASIN
        /\ {Table[k].ASIN : k \in 1..Len(Table)}
              = {df.rows[i].ASIN : i \in 1..Len(df.rows)}
        /\ \A j, k \in 1..Len(Table) :
              j < k => FirstRowOf(Table[j].ASIN) < FirstRowOf(Table[k].ASIN)
        /\ \A reordered \in WithinProductOrders :
              \A out \in generate_graph(Frame(reordered, ""), asin_names_dict.val,
                                         threshold_high, threshold_low) :
                  /\ ~out.raised
                  /\ Column(out.val.df_result, "ASIN") = Column(Table, "ASIN")
                  /\ Column(out.val.df_result, "pattern") = Column(Table, "pattern")

\* a run over rows b, a, b whose two rows of b differ: two table rows, b first
C7_Witness ==
    /\ Succeeded
    /\ Len(df.rows) = 3
    /\ df.rows[1].ASIN = <<"b">> /\ df.rows[2].ASIN = <<"a">>
    /\ df.rows[3].ASIN = <<"b">> /\ df.rows[1] /= df.rows[3]
    /\ Len(Table) = 2 /\ Table[1].ASIN = <<"b">>

-----------------------------------------------------------------------------
(* Claims about the name-mapping parse                                     *)

Parsed == button /\ asin_names_dict.some

\* the lines the loop runs over
ParsedLines == split(strip(asin_name_input), NL)

HasSeparator(line) == \E i \in 1..Len(line) : line[i] \in {TAB, COMMA}

FirstOf(line, S) ==
    CHOOSE p \in 1..Len(line) :
        line[p] \in S /\ \A q \in 1..(p - 1) : line[q] \notin S

\* the first separator of a line, tab or comma, whichever comes first
FirstSeparator(line) == FirstOf(line, {TAB, COMMA})

\* the first tab of a line that has a tab, else its first comma
FirstTabElseComma(line) ==
    IF \E i \in 1..Len(line) : line[i] = TAB
    THEN FirstOf(line, {TAB})
    ELSE FirstOf(line, {COMMA})

KeyAt(line, p) == strip(SubSeq(line, 1, p - 1))
NameAt(line, p) == strip(SubSeq(line, p + 1, Len(line)))

\* the mapping holds, for every line with a separator, the two parts around
\* position At(line) (a later line with the same key wins), and nothing else
MappingSplitsAt(At(_)) ==
    LET L == ParsedLines
        S == {i \in 1..Len(L) : HasSeparator(L[i])}
        d == asin_names_dict.val
    IN  /\ DOMAIN d = {KeyAt(L[i], At(L[i])) : i \in S}
        /\ \A i \in S :
              (\A j \in S : j > i => KeyAt(L[j], At(L[j])) /= KeyAt(L[i], At(L[i])))
              => d[KeyAt(L[i], At(L[i]))] = NameAt(L[i], At(L[i]))

\* C9 as stated: every line with a tab or a comma is split at its first
\* separator, whichever of the two it is; lines with neither add no entry.
C9_FirstSeparator == Parsed => MappingSplitsAt(FirstSeparator)

\* C9 as amended: a line with a tab is split at its first tab, also when a
\* comma comes before it; a line with a comma and no tab is split at its
\* first comma; lines with neither add no entry.
C9_TabBeforeComma == Parsed => MappingSplitsAt(FirstTabElseComma)

\* a parsed text with a line whose comma comes before its tab, and whose key
\* therefore holds the comma
C9_Witness ==
    /\ Parsed
    /\ \E i \in 1..Len(ParsedLines) :
          /\ HasSeparator(ParsedLines[i])
          /\ FirstSeparator(ParsedLines[i]) < FirstTabElseComma(ParsedLines[i])
          /\ KeyAt(ParsedLines[i], FirstTabElseComma(ParsedLines[i]))
                \in DOMAIN asin_names_dict.val
          /\ Contains(KeyAt(ParsedLines[i], FirstTabElseComma(ParsedLines[i])), COMMA)

-----------------------------------------------------------------------------
(* Claims about the session                                                *)

\* the stored pair is what one run of generate_graph returns
FromOneRun ==
    \E f \in SessionFrames \ {None}, t \in RunTexts, th \in SessionThresholds,
       tl \in {threshold_low} :
        \E out \in generate_graph(f, parse_names(t), th, tl) :
            /\ ~out.raised
            /\ out.val = [fig |-> fig.val, df_result |-> df_result.val]

\* C8: a click whose generation raises leaves the stored chart, table and flag
\* as they were, so what was displayed stays displayed; the button stays
\* available after it; and a later click that succeeds stores its own result.
C8_FailureKeepsLast ==
    /\ [][(button' /\ error_shown') =>
             /\ fig' = fig /\ df_result' = df_result
             /\ graph_generated' = graph_generated
             /\ Displayed' = Displayed]_vars
    /\ [][(button' /\ ~error_shown') =>
             /\ Displayed'
             /\ \E out \in generate_graph(df, parse_names(asin_name_input),
                                          threshold_high, threshold_low) :
                   /\ ~out.raised
                   /\ fig' = Some(out.val.fig)
                   /\ df_result' = Some(out.val.df_result)]_vars
    /\ []((button /\ error_shown) => ENABLED GenerationTrigger)

\* a failed click after a successful run: the earlier chart is displayed
C8_Witness ==
    /\ button /\ error_shown /\ Displayed
    /\ Len(df_result.val) > 0

\* C10: graph_generated implies that the chart and the table are both set;
\* the chart and the table always come from one run; and graph_generated,
\* once true, stays true.
C10_SessionInvariant ==
    /\ [](/\ graph_generated => (fig /= None /\ df_result /= None)
          /\ fig.some <=> df_result.some
          /\ fig.some => FromOneRun)
    /\ [][graph_generated => graph_generated']_vars

\* a failed click on a CSV without the elasticity column, after a successful
\* run made under another threshold_high: the flag and the earlier pair stand
C10_Witness ==
    /\ graph_generated /\ button /\ error_shown
    /\ df.missing = "elasticity"
    /\ threshold_high /= fig.val.hlines[2]

=============================================================================
